---- MODULE Spec2Model ----
(***************************************************************************)
(* Model of src/__main__.py: a Pulumi program that declares a VPC, an EKS  *)
(* cluster, a Kubernetes provider and 26 Kubernetes resources, then        *)
(* exports 11 stack outputs.  The program is one sequential pass over the  *)
(* module's top-level statements; the external engine applies what was     *)
(* declared, in any order its dependency edges allow.                      *)
(***************************************************************************)
EXTENDS Integers, Sequences, FiniteSets, TLC

VARIABLES
    config,      \* the stack configuration: key -> <<>> (unset) or <<raw value>>
    env,         \* module globals bound by the configuration block (lines 16-27)
    pc,          \* index of the next top-level statement of the pass
    decls,       \* declarations constructed (registered) so far, in order
    exports,     \* pulumi.export calls issued so far, in order
    phase,       \* "running" | "submitted" | "done" | "error"
    run,         \* number of the current run of the program
    prevDecls,   \* declarations of the previous run (<<>> in the first)
    prevExports, \* exports of the previous run
    applied,     \* ids of the declarations the engine has applied
    outputs,     \* stack output name -> <<>> (unresolved) or <<value>>
    failed,      \* <<>> or <<the failure the engine raised: declaration, reason>>
    error        \* <<>> or <<error>> the run ended with

vars == <<config, env, pc, decls, exports, phase, run, prevDecls, prevExports,
          applied, outputs, failed, error>>

(***************************************************************************)
(* Bounds                                                                  *)
(***************************************************************************)
MaxOverrides == 1   \* at most this many configuration keys are overridden
MaxDigits == 1      \* length of the raw text of an integer override
MaxRuns == 2        \* runs of the program with the same configuration
\* the engine's failures are explored wherever at most this many declarations
\* are applied; the deepest declaration has 7 predecessors
MaxAppliedAtFailure == 7

None == <<>>

(***************************************************************************)
(* Configuration (lines 12-27, 530, 562)                                   *)
(***************************************************************************)
StrKeys == {"aws:region", "cluster_name", "k8s_version", "node_instance_type",
            "vpc_cidr", "letsencrypt_email"}

IntKeys == {"desired_capacity", "min_size", "max_size"}

Keys == StrKeys \cup IntKeys

\* override values tried for the string keys: the empty string and two
\* names other declarations of the program carry
StrOverrides == {"", "kong", "microservices-vpc"}

Digits == {0, 1}

\* raw text of an integer override: a non-empty digit string
IntOverrides == UNION {[1..n -> Digits] : n \in 1..MaxDigits}

RECURSIVE ParseInt(_)
\* int(raw): the decimal value of a digit string
ParseInt(raw) ==
    IF Len(raw) = 0 THEN 0
    ELSE 10 * ParseInt(SubSeq(raw, 1, Len(raw) - 1)) + raw[Len(raw)]

Configs ==
    UNION {
      UNION {
        {[k \in Keys |-> IF k \in S THEN <<f[k]>>
                          ELSE IF k \in I THEN <<g[k]>> ELSE None] :
            f \in [S -> StrOverrides], g \in [I -> IntOverrides]} :
        I \in {J \in SUBSET IntKeys : Cardinality(J) + Cardinality(S) <= MaxOverrides}} :
      S \in {T \in SUBSET StrKeys : Cardinality(T) <= MaxOverrides}}

NoOverrides == [k \in Keys |-> None]

\* config.get(key): None when the key is unset, else its string
get(key) == config[key]

\* config.get_int(key): None when the key is unset, else int(raw)
get_int(key) == IF config[key] = None THEN None ELSE <<ParseInt(config[key][1])>>

\* Python `v or d` on an optional string: None and "" are falsy
StrOr(v, d) == IF v = None \/ v[1] = "" THEN d ELSE v[1]

\* Python `v or d` on an optional integer: None and 0 are falsy
IntOr(v, d) == IF v = None \/ v[1] = 0 THEN d ELSE v[1]

Unbound == [aws_region |-> "", cluster_name |-> "", k8s_version |-> "",
            node_instance_type |-> "", desired_capacity |-> 0, min_size |-> 0,
            max_size |-> 0, vpc_cidr |-> ""]

\* the configuration block: lines 16-27
ConfigBlock ==
    [aws_region         |-> StrOr(get("aws:region"), "us-west-2"),
     cluster_name       |-> StrOr(get("cluster_name"), "microservices-cluster"),
     k8s_version        |-> StrOr(get("k8s_version"), "1.31"),
     node_instance_type |-> StrOr(get("node_instance_type"), "t3.large"),
     desired_capacity   |-> IntOr(get_int("desired_capacity"), 3),
     min_size           |-> IntOr(get_int("min_size"), 2),
     max_size           |-> IntOr(get_int("max_size"), 6),
     vpc_cidr           |-> StrOr(get("vpc_cidr"), "10.0.0.0/16")]

\* the email both ClusterIssuers read at construction (lines 530, 562)
letsencrypt_email == StrOr(get("letsencrypt_email"), "admin@example.com")

(***************************************************************************)
(* Resource constructors.  A declaration records the Python variable it is *)
(* bound to (id), its kind and logical name, the namespace declaration     *)
(* whose metadata.name it is placed in, its opts (provider, depends_on),   *)
(* the declarations whose outputs its arguments read (refs) and the        *)
(* arguments that carry configuration or identify the object (params).     *)
(***************************************************************************)
\* k8s.core.v1.Namespace(name, metadata=..., opts=ResourceOptions(provider=...))
Namespace(id, name, p) ==
    [id |-> id, kind |-> "namespace", name |-> name, namespace |-> "",
     provider |-> p, depends_on |-> {}, refs |-> {},
     params |-> [metadata_name |-> name]]

\* k8s.helm.v3.Release(name, ReleaseArgs(chart, version, namespace=ns.metadata.name), opts)
Release(id, name, chart, version, ns, p, deps) ==
    [id |-> id, kind |-> "helm-release", name |-> name, namespace |-> ns,
     provider |-> p, depends_on |-> deps, refs |-> {ns},
     params |-> [chart |-> chart, version |-> version]]

\* k8s.networking.v1.NetworkPolicy(name, metadata(name, namespace=ns.metadata.name), spec, opts)
NetworkPolicy(id, name, metaName, ns, p, deps) ==
    [id |-> id, kind |-> "network-policy", name |-> name, namespace |-> ns,
     provider |-> p, depends_on |-> deps, refs |-> {ns},
     params |-> [metadata_name |-> metaName]]

\* k8s.apiextensions.CustomResource of kind ClusterIssuer (cluster-scoped)
ClusterIssuer(id, name, email, p, deps) ==
    [id |-> id, kind |-> "custom-resource", name |-> name, namespace |-> "",
     provider |-> p, depends_on |-> deps, refs |-> {},
     params |-> [metadata_name |-> name, email |-> email]]

(***************************************************************************)
(* The 29 declarations, in source order                                    *)
(***************************************************************************)
vpc ==
    [id |-> "vpc", kind |-> "network", name |-> "microservices-vpc",
     namespace |-> "", provider |-> "", depends_on |-> {}, refs |-> {},
     params |-> [cidr_block |-> env.vpc_cidr]]

\* auto-naming that numbers the cluster by the run
cluster_numbered ==
    [id |-> "cluster", kind |-> "cluster",
     name |-> IF run = 1 THEN env.cluster_name ELSE "microservices-cluster-2",
     namespace |-> "", provider |-> "", depends_on |-> {}, refs |-> {"vpc"},
     params |-> [version |-> env.k8s_version,
                 instance_type |-> env.node_instance_type,
                 desired_capacity |-> env.desired_capacity,
                 min_size |-> env.min_size,
                 max_size |-> env.max_size]]

cluster ==
    [id |-> "cluster", kind |-> "cluster", name |-> env.cluster_name,
     namespace |-> "", provider |-> "", depends_on |-> {}, refs |-> {"vpc"},
     params |-> [version |-> env.k8s_version,
                 instance_type |-> env.node_instance_type,
                 desired_capacity |-> env.desired_capacity,
                 min_size |-> env.min_size,
                 max_size |-> env.max_size]]

\* the provider built from a kubeconfig file instead of cluster.kubeconfig
k8s_provider_from_file ==
    [id |-> "k8s_provider", kind |-> "provider", name |-> "k8s-provider",
     namespace |-> "", provider |-> "", depends_on |-> {}, refs |-> {},
     params |-> [kubeconfig |-> "~/.kube/config"]]

k8s_provider ==
    [id |-> "k8s_provider", kind |-> "provider", name |-> "k8s-provider",
     namespace |-> "", provider |-> "", depends_on |-> {}, refs |-> {"cluster"},
     params |-> [kubeconfig |-> "cluster.kubeconfig"]]

istio_namespace == Namespace("istio_namespace", "istio-system", "k8s_provider")

istio_base ==
    Release("istio_base", "istio-base", "base", "1.24.2",
            "istio_namespace", "k8s_provider", {"istio_namespace"})

\* istiod waiting for the ingress gateway that waits for istiod
istiod_after_ingress ==
    Release("istiod", "istiod", "istiod", "1.24.2",
            "istio_namespace", "k8s_provider", {"istio_ingress"})

istiod ==
    Release("istiod", "istiod", "istiod", "1.24.2",
            "istio_namespace", "k8s_provider", {"istio_base"})

\* the gateway waiting for istio-base instead of istiod
istio_ingress_after_base ==
    Release("istio_ingress", "istio-ingress", "gateway", "1.24.2",
            "istio_namespace", "k8s_provider", {"istio_base"})

istio_ingress ==
    Release("istio_ingress", "istio-ingress", "gateway", "1.24.2",
            "istio_namespace", "k8s_provider", {"istiod"})

logging_namespace == Namespace("logging_namespace", "logging", "k8s_provider")

elasticsearch ==
    Release("elasticsearch", "elasticsearch", "elasticsearch", "8.5.1",
            "logging_namespace", "k8s_provider", {"logging_namespace"})

kibana ==
    Release("kibana", "kibana", "kibana", "8.5.1",
            "logging_namespace", "k8s_provider", {"elasticsearch"})

\* Fluent Bit made to wait for Kibana
fluent_bit_after_kibana ==
    Release("fluent_bit", "fluent-bit", "fluent-bit", "0.47.10",
            "logging_namespace", "k8s_provider", {"kibana"})

fluent_bit ==
    Release("fluent_bit", "fluent-bit", "fluent-bit", "0.47.10",
            "logging_namespace", "k8s_provider", {"elasticsearch"})

observability_namespace ==
    Namespace("observability_namespace", "observability", "k8s_provider")

jaeger_operator ==
    Release("jaeger_operator", "jaeger-operator", "jaeger-operator", "2.57.0",
            "observability_namespace", "k8s_provider", {"observability_namespace"})

\* the Jaeger instance waiting for its storage only
jaeger_instance_storage_only ==
    [id |-> "jaeger_instance", kind |-> "custom-resource", name |-> "jaeger-instance",
     namespace |-> "observability_namespace", provider |-> "k8s_provider",
     depends_on |-> {"elasticsearch"},
     refs |-> {"observability_namespace"},
     params |-> [metadata_name |-> "jaeger"]]

jaeger_instance ==
    [id |-> "jaeger_instance", kind |-> "custom-resource", name |-> "jaeger-instance",
     namespace |-> "observability_namespace", provider |-> "k8s_provider",
     depends_on |-> {"jaeger_operator", "elasticsearch"},
     refs |-> {"observability_namespace"},
     params |-> [metadata_name |-> "jaeger"]]

kong_namespace == Namespace("kong_namespace", "kong", "k8s_provider")

kong ==
    Release("kong", "kong", "kong", "2.45.0",
            "kong_namespace", "k8s_provider", {"kong_namespace"})

cert_manager_namespace ==
    Namespace("cert_manager_namespace", "cert-manager", "k8s_provider")

cert_manager ==
    Release("cert_manager", "cert-manager", "cert-manager", "v1.16.2",
            "cert_manager_namespace", "k8s_provider", {"cert_manager_namespace"})

letsencrypt_staging ==
    ClusterIssuer("letsencrypt_staging", "letsencrypt-staging", letsencrypt_email,
                  "k8s_provider", {"cert_manager"})

\* the issuer waiting for the cert-manager namespace instead of the release
letsencrypt_prod_after_namespace ==
    ClusterIssuer("letsencrypt_prod", "letsencrypt-prod", letsencrypt_email,
                  "k8s_provider", {"cert_manager_namespace"})

letsencrypt_prod ==
    ClusterIssuer("letsencrypt_prod", "letsencrypt-prod", letsencrypt_email,
                  "k8s_provider", {"cert_manager"})

\* the policy naming a namespace that is constructed only later
logging_deny_ingress_forward ==
    NetworkPolicy("logging_deny_ingress", "logging-deny-ingress", "deny-all-ingress",
                  "logging_namespace", "k8s_provider", {"monitoring_namespace"})

logging_deny_ingress ==
    NetworkPolicy("logging_deny_ingress", "logging-deny-ingress", "deny-all-ingress",
                  "logging_namespace", "k8s_provider", {"logging_namespace"})

logging_allow_fluent_to_es ==
    NetworkPolicy("logging_allow_fluent_to_es", "logging-allow-fluent-to-es",
                  "allow-fluent-to-elasticsearch",
                  "logging_namespace", "k8s_provider", {"logging_namespace"})

logging_allow_kibana_to_es ==
    NetworkPolicy("logging_allow_kibana_to_es", "logging-allow-kibana-to-es",
                  "allow-kibana-to-elasticsearch",
                  "logging_namespace", "k8s_provider", {"logging_namespace"})

\* the policy copied from the logging one with its logical name left as is
observability_deny_ingress_copied ==
    NetworkPolicy("observability_deny_ingress", "logging-deny-ingress",
                  "deny-all-ingress",
                  "observability_namespace", "k8s_provider", {"observability_namespace"})

observability_deny_ingress ==
    NetworkPolicy("observability_deny_ingress", "observability-deny-ingress",
                  "deny-all-ingress",
                  "observability_namespace", "k8s_provider", {"observability_namespace"})

observability_allow_istio_to_jaeger ==
    NetworkPolicy("observability_allow_istio_to_jaeger",
                  "observability-allow-istio-to-jaeger", "allow-istio-to-jaeger",
                  "observability_namespace", "k8s_provider", {"observability_namespace"})

\* the namespace left on the ambient default provider
monitoring_namespace_default_provider ==
    Namespace("monitoring_namespace", "monitoring", "")

monitoring_namespace == Namespace("monitoring_namespace", "monitoring", "k8s_provider")

kube_prometheus_stack ==
    Release("kube_prometheus_stack", "kube-prometheus-stack", "kube-prometheus-stack",
            "67.7.0", "monitoring_namespace", "k8s_provider", {"monitoring_namespace"})

argocd_namespace == Namespace("argocd_namespace", "argocd", "k8s_provider")

argocd ==
    Release("argocd", "argocd", "argo-cd", "7.7.12",
            "argocd_namespace", "k8s_provider", {"argocd_namespace"})

\* the resource statements of the module, top to bottom
Program ==
    <<vpc, cluster, k8s_provider,
      istio_namespace, istio_base, istiod, istio_ingress,
      logging_namespace, elasticsearch, kibana, fluent_bit,
      observability_namespace, jaeger_operator, jaeger_instance,
      kong_namespace, kong,
      cert_manager_namespace, cert_manager, letsencrypt_staging, letsencrypt_prod,
      logging_deny_ingress, logging_allow_fluent_to_es, logging_allow_kibana_to_es,
      observability_deny_ingress, observability_allow_istio_to_jaeger,
      monitoring_namespace, kube_prometheus_stack,
      argocd_namespace, argocd>>

NDecls == Len(Program)

\* the Python variables the resource statements bind, top to bottom
SourceOrder ==
    <<"vpc", "cluster", "k8s_provider",
      "istio_namespace", "istio_base", "istiod", "istio_ingress",
      "logging_namespace", "elasticsearch", "kibana", "fluent_bit",
      "observability_namespace", "jaeger_operator", "jaeger_instance",
      "kong_namespace", "kong",
      "cert_manager_namespace", "cert_manager", "letsencrypt_staging",
      "letsencrypt_prod",
      "logging_deny_ingress", "logging_allow_fluent_to_es",
      "logging_allow_kibana_to_es",
      "observability_deny_ingress", "observability_allow_istio_to_jaeger",
      "monitoring_namespace", "kube_prometheus_stack",
      "argocd_namespace", "argocd">>

(***************************************************************************)
(* The export block (lines 954-964).  A value is either a plain Python     *)
(* value (of = "") or an Output read from a declaration (of = its id).     *)
(***************************************************************************)
Plain(v) == [of |-> "", val |-> v]

Output(id, attr) == [of |-> id, val |-> attr]

\* the last export copied from the one above with its name left as is
ExportBlock_copied ==
    <<[name |-> "vpc_id",             value |-> Output("vpc", "vpc_id")],
      [name |-> "vpc_cidr",           value |-> Plain(env.vpc_cidr)],
      [name |-> "public_subnet_ids",  value |-> Output("vpc", "public_subnet_ids")],
      [name |-> "private_subnet_ids", value |-> Output("vpc", "private_subnet_ids")],
      [name |-> "aws_region",         value |-> Plain(env.aws_region)],
      [name |-> "cluster_name",       value |-> Output("cluster", "eks_cluster.name")],
      [name |-> "cluster_endpoint",   value |-> Output("cluster", "eks_cluster.endpoint")],
      [name |-> "cluster_security_group_id",
                                      value |-> Output("cluster", "cluster_security_group.id")],
      [name |-> "kubeconfig",         value |-> Output("cluster", "kubeconfig")],
      [name |-> "oidc_provider_arn",  value |-> Output("cluster", "core.oidc_provider.arn")],
      [name |-> "oidc_provider_arn",  value |-> Output("cluster", "core.oidc_provider.url")]>>

\* cluster_name exported from the configuration variable instead of the
\* cluster's output
ExportBlock_plain_name ==
    <<[name |-> "vpc_id",             value |-> Output("vpc", "vpc_id")],
      [name |-> "vpc_cidr",           value |-> Plain(env.vpc_cidr)],
      [name |-> "public_subnet_ids",  value |-> Output("vpc", "public_subnet_ids")],
      [name |-> "private_subnet_ids", value |-> Output("vpc", "private_subnet_ids")],
      [name |-> "aws_region",         value |-> Plain(env.aws_region)],
      [name |-> "cluster_name",       value |-> Plain(env.cluster_name)],
      [name |-> "cluster_endpoint",   value |-> Output("cluster", "eks_cluster.endpoint")],
      [name |-> "cluster_security_group_id",
                                      value |-> Output("cluster", "cluster_security_group.id")],
      [name |-> "kubeconfig",         value |-> Output("cluster", "kubeconfig")],
      [name |-> "oidc_provider_arn",  value |-> Output("cluster", "core.oidc_provider.arn")],
      [name |-> "oidc_provider_url",  value |-> Output("cluster", "core.oidc_provider.url")]>>

ExportBlock ==
    <<[name |-> "vpc_id",             value |-> Output("vpc", "vpc_id")],
      [name |-> "vpc_cidr",           value |-> Plain(env.vpc_cidr)],
      [name |-> "public_subnet_ids",  value |-> Output("vpc", "public_subnet_ids")],
      [name |-> "private_subnet_ids", value |-> Output("vpc", "private_subnet_ids")],
      [name |-> "aws_region",         value |-> Plain(env.aws_region)],
      [name |-> "cluster_name",       value |-> Output("cluster", "eks_cluster.name")],
      [name |-> "cluster_endpoint",   value |-> Output("cluster", "eks_cluster.endpoint")],
      [name |-> "cluster_security_group_id",
                                      value |-> Output("cluster", "cluster_security_group.id")],
      [name |-> "kubeconfig",         value |-> Output("cluster", "kubeconfig")],
      [name |-> "oidc_provider_arn",  value |-> Output("cluster", "core.oidc_provider.arn")],
      [name |-> "oidc_provider_url",  value |-> Output("cluster", "core.oidc_provider.url")]>>

NExports == Len(ExportBlock)

ExportNames == {ExportBlock[i].name : i \in 1..NExports}

\* pc values: 0 is the configuration block, 1..NDecls the resource
\* statements, NDecls+1..NDecls+NExports the exports, then the end
PcEnd == NDecls + NExports + 1

(***************************************************************************)
(* The program: one sequential pass over the top-level statements          *)
(***************************************************************************)
Ids(ds) == {ds[i].id : i \in 1..Len(ds)}

Unresolved == [n \in ExportNames |-> None]

\* lines 12-27: bind the module globals from the configuration
ReadConfig ==
    /\ phase = "running"
    /\ pc = 0
    /\ env' = ConfigBlock
    /\ pc' = 1
    /\ UNCHANGED <<config, decls, exports, phase, run, prevDecls, prevExports,
                   applied, outputs, failed, error>>

\* a resource statement executed again on the way: the declaration is
\* registered a second time
DeclareAgain ==
    /\ phase = "running"
    /\ pc \in 1..NDecls
    /\ decls' = IF pc = 5 THEN decls \o <<Program[pc], Program[pc]>>
                ELSE Append(decls, Program[pc])
    /\ pc' = pc + 1
    /\ UNCHANGED <<config, env, exports, phase, run, prevDecls, prevExports,
                   applied, outputs, failed, error>>

\* lines 31-951: the next resource statement constructs its declaration and
\* registers it with the engine
Declare ==
    /\ phase = "running"
    /\ pc \in 1..NDecls
    /\ decls' = Append(decls, Program[pc])
    /\ pc' = pc + 1
    /\ UNCHANGED <<config, env, exports, phase, run, prevDecls, prevExports,
                   applied, outputs, failed, error>>

\* lines 954-964: the next pulumi.export call; a plain value is known at
\* once, an Output only once the declaration it is read from is applied
Export ==
    /\ phase = "running"
    /\ pc \in (NDecls + 1)..(NDecls + NExports)
    /\ LET e == ExportBlock[pc - NDecls]
       IN /\ exports' = Append(exports, e)
          /\ outputs' = [outputs EXCEPT ![e.name] =
                            IF e.value.of = "" THEN <<e.value.val>>
                            ELSE IF e.value.of \in applied
                                 THEN <<[of |-> e.value.of, attr |-> e.value.val]>>
                                 ELSE None]
    /\ pc' = pc + 1
    /\ UNCHANGED <<config, env, decls, phase, run, prevDecls, prevExports,
                   applied, failed, error>>

\* line 964: the module body ends; the graph is with the engine
ProgramEnd ==
    /\ phase = "running"
    /\ pc = PcEnd
    /\ phase' = "submitted"
    /\ UNCHANGED <<config, env, pc, decls, exports, run, prevDecls, prevExports,
                   applied, outputs, failed, error>>

\* the program is invoked again with the same configuration: a fresh
\* interpreter, nothing of the module's state survives
Rerun ==
    /\ phase = "submitted"
    /\ run < MaxRuns
    /\ run' = run + 1
    /\ prevDecls' = decls
    /\ prevExports' = exports
    /\ env' = Unbound
    /\ pc' = 0
    /\ decls' = <<>>
    /\ exports' = <<>>
    /\ outputs' = Unresolved
    /\ phase' = "running"
    /\ UNCHANGED <<config, applied, failed, error>>

(***************************************************************************)
(* The external engine                                                     *)
(***************************************************************************)
\* what the engine waits for before it applies d: the explicit depends_on
\* list, the provider d is bound to, and every declaration whose outputs
\* d's arguments read
EnginePreds(d) ==
    d.depends_on \cup d.refs \cup (IF d.provider = "" THEN {} ELSE {d.provider})

Ready(d) ==
    /\ phase = "submitted"
    /\ d.id \notin applied
    /\ EnginePreds(d) \subseteq applied

\* the failures the engine can report for a declaration
Errors(d) ==
    {"invalid parameter", "provider API error"} \cup
    (IF d.kind = "helm-release" THEN {"chart install failure"} ELSE {})

\* a handler that wraps what the engine raised in an error of its own
PropagateWrapped(raised) == [decl |-> raised.decl, reason |-> "deployment failed"]

\* the module has no try/except around any statement: what the engine
\* raised is what the run ends with
Propagate(raised) == raised

\* the outputs once the declaration id is applied: every export read from
\* it resolves
Resolve(id) ==
    LET hit == {i \in 1..Len(exports) : exports[i].value.of = id}
    IN IF hit = {} THEN outputs
       ELSE [n \in ExportNames |->
                IF \E i \in hit : exports[i].name = n
                THEN <<[of |-> id,
                        attr |-> exports[CHOOSE i \in hit : exports[i].name = n].value.val]>>
                ELSE outputs[n]]

\* the engine applies a declaration all of whose predecessors are applied
Apply(i) ==
    /\ Ready(decls[i])
    /\ applied' = applied \cup {decls[i].id}
    /\ outputs' = Resolve(decls[i].id)
    /\ phase' = IF Cardinality(applied') = Len(decls) THEN "done" ELSE "submitted"
    /\ UNCHANGED <<config, env, pc, decls, exports, run, prevDecls, prevExports,
                   failed, error>>

\* the engine reports a failure for a declaration it was about to apply;
\* the failure ends the run
Fail(i) ==
    /\ phase = "submitted"
    /\ Cardinality(applied) <= MaxAppliedAtFailure
    /\ Ready(decls[i])
    /\ \E e \in Errors(decls[i]) :
          /\ failed' = <<[decl |-> decls[i].id, reason |-> e]>>
          /\ error' = <<Propagate(failed'[1])>>
    /\ phase' = "error"
    /\ UNCHANGED <<config, env, pc, decls, exports, run, prevDecls, prevExports,
                   applied, outputs>>

(***************************************************************************)
(* Specifications                                                          *)
(***************************************************************************)
InitWith(c) ==
    /\ config = c
    /\ env = Unbound
    /\ pc = 0
    /\ decls = <<>>
    /\ exports = <<>>
    /\ phase = "running"
    /\ run = 1
    /\ prevDecls = <<>>
    /\ prevExports = <<>>
    /\ applied = {}
    /\ outputs = Unresolved
    /\ failed = None
    /\ error = None

\* the program alone, run and re-run under every configuration in bounds
Init == \E c \in Configs : InitWith(c)

Next ==
    \/ ReadConfig
    \/ Declare
    \/ Export
    \/ ProgramEnd
    \/ Rerun

Spec == Init /\ [][Next]_vars

\* one run of the program under the default configuration, then the engine
InitApply == InitWith(NoOverrides)

NextApply ==
    \/ ReadConfig
    \/ Declare
    \/ Export
    \/ ProgramEnd
    \/ \E i \in 1..Len(decls) : Apply(i)
    \/ \E i \in 1..Len(decls) : Fail(i)

SpecApply == InitApply /\ [][NextApply]_vars

(***************************************************************************)
(* Graph helpers for the properties                                        *)
(***************************************************************************)
Declared(id) == \E i \in 1..Len(decls) : decls[i].id = id

DeclById(id) == decls[CHOOSE i \in 1..Len(decls) : decls[i].id = id]

\* the explicit predecessor list of a declaration (empty for an id that
\* names no declaration)
ExplicitPreds(id) == IF Declared(id) THEN DeclById(id).depends_on ELSE {}

\* every edge the engine honours
AllPreds(id) == IF Declared(id) THEN EnginePreds(DeclById(id)) ELSE {}

RECURSIVE Closure(_, _, _)
\* S closed under the predecessor relation P, in at most n rounds
Closure(P(_), S, n) ==
    LET T == S \cup UNION {P(x) : x \in S}
    IN IF n = 0 \/ T = S THEN T ELSE Closure(P, T, n - 1)

ExplicitAncestors(id) == Closure(ExplicitPreds, ExplicitPreds(id), NDecls)

EngineAncestors(id) == Closure(AllPreds, AllPreds(id), NDecls)

K8sKinds == {"namespace", "helm-release", "custom-resource", "network-policy"}

Overridden == \E k \in Keys : config[k] # None

(***************************************************************************)
(* C1: the graph of depends_on edges among the constructed declarations is *)
(* acyclic: no declaration is reachable from itself along one or more      *)
(* predecessor edges, at every point of every run, for every configuration.*)
(***************************************************************************)
C1_Acyclic ==
    \A i \in 1..Len(decls) : decls[i].id \notin ExplicitAncestors(decls[i].id)

\* the whole graph is declared and the Jaeger instance reaches the logging
\* namespace through its two-predecessor list
C1_Witness ==
    /\ Len(decls) = 29
    /\ Overridden
    /\ "logging_namespace" \in ExplicitAncestors("jaeger_instance")
    /\ "observability_namespace" \in ExplicitAncestors("jaeger_instance")

(***************************************************************************)
(* C2: every predecessor a declaration names in depends_on is a            *)
(* declaration of this run that was constructed earlier in the pass: no    *)
(* dangling and no forward reference, at every point of the construction.  *)
(***************************************************************************)
C2_PredecessorsEarlier ==
    \A i \in 1..Len(decls) :
        decls[i].depends_on \subseteq {decls[j].id : j \in 1..(i - 1)}

\* the first network policy has just been constructed, naming the logging
\* namespace constructed 13 statements earlier
C2_Witness ==
    /\ Len(decls) = 21
    /\ decls[21].id = "logging_deny_ingress"
    /\ decls[21].depends_on = {"logging_namespace"}
    /\ decls[8].id = "logging_namespace"

(***************************************************************************)
(* C3: for each configuration key the declared value is the default when   *)
(* no override is supplied and the override whenever one is supplied,      *)
(* whatever its value, the integer 0 and the empty string included.        *)
(***************************************************************************)
ExpectStr(k, d) == IF config[k] = None THEN d ELSE config[k][1]

ExpectInt(k, d) == IF config[k] = None THEN d ELSE ParseInt(config[k][1])

C3_OverridesTakePrecedence ==
    phase = "submitted" =>
        /\ exports[5].name = "aws_region"
        /\ exports[5].value.val = ExpectStr("aws:region", "us-west-2")
        /\ DeclById("cluster").name = ExpectStr("cluster_name", "microservices-cluster")
        /\ DeclById("cluster").params.version = ExpectStr("k8s_version", "1.31")
        /\ DeclById("cluster").params.instance_type
              = ExpectStr("node_instance_type", "t3.large")
        /\ DeclById("cluster").params.desired_capacity = ExpectInt("desired_capacity", 3)
        /\ DeclById("cluster").params.min_size = ExpectInt("min_size", 2)
        /\ DeclById("cluster").params.max_size = ExpectInt("max_size", 6)
        /\ DeclById("vpc").params.cidr_block = ExpectStr("vpc_cidr", "10.0.0.0/16")
        /\ DeclById("letsencrypt_staging").params.email
              = ExpectStr("letsencrypt_email", "admin@example.com")
        /\ DeclById("letsencrypt_prod").params.email
              = ExpectStr("letsencrypt_email", "admin@example.com")

UniqueKindName ==
    \A i, j \in 1..Len(decls) :
        (decls[i].kind = decls[j].kind /\ decls[i].name = decls[j].name) => i = j

ConstructedUnmodified ==
    run' = run =>
        /\ Len(decls') >= Len(decls)
        /\ \A i \in 1..Len(decls) : decls'[i] = decls[i]

C5_UniqueImmutable == [](UniqueKindName) /\ [][ConstructedUnmodified]_vars

\* the cluster is named kong, like the kong namespace and the kong release,
\* and the whole graph is declared
C5_Witness ==
    /\ config["cluster_name"] = <<"kong">>
    /\ Len(decls) = 29
    /\ Cardinality({i \in 1..Len(decls) : decls[i].name = "kong"}) = 3
    /\ Cardinality({i \in 1..Len(decls) : decls[i].name = "cert-manager"}) = 2
    /\ Cardinality({i \in 1..Len(decls) : decls[i].name = "argocd"}) = 2

(***************************************************************************)
(* C6 (as stated): every dependency is an explicit depends_on edge: along  *)
(* the explicit edges alone the network precedes the cluster, the cluster  *)
(* the provider, the provider every Kubernetes resource, and every         *)
(* declaration whose output a parameter reads precedes its reader.         *)
(***************************************************************************)
C6_ExplicitEdgesOrder ==
    /\ Declared("cluster") => "vpc" \in ExplicitAncestors("cluster")
    /\ Declared("k8s_provider") => "cluster" \in ExplicitAncestors("k8s_provider")
    /\ \A i \in 1..Len(decls) :
          /\ decls[i].kind \in K8sKinds =>
                "k8s_provider" \in ExplicitAncestors(decls[i].id)
          /\ decls[i].refs \subseteq ExplicitAncestors(decls[i].id)

(***************************************************************************)
(* C6 (amended): in every apply order that respects the depends_on edges   *)
(* together with the edges carried by provider bindings and parameter      *)
(* references, the network is applied before the cluster, the cluster      *)
(* before the provider, the provider before every Kubernetes resource, and *)
(* whatever a declaration's parameters read is applied before it.          *)
(***************************************************************************)
C6_EngineOrder ==
    /\ "cluster" \in applied => "vpc" \in applied
    /\ "k8s_provider" \in applied => "cluster" \in applied
    /\ \A i \in 1..Len(decls) :
          decls[i].id \in applied =>
              /\ decls[i].kind \in K8sKinds => "k8s_provider" \in applied
              /\ decls[i].refs \subseteq applied

\* a namespace has been applied over the provider, cluster and network,
\* none of which its depends_on list names
C6_Witness ==
    /\ "istio_namespace" \in applied
    /\ "istio_base" \in applied
    /\ {"vpc", "cluster", "k8s_provider"} \subseteq applied
    /\ ExplicitAncestors("istio_base") = {"istio_namespace"}

(***************************************************************************)
(* C7: the exported names are fixed: once the pass has ended exactly the   *)
(* 11 names are exported, each once, under every configuration, and no     *)
(* export is issued before all 29 declarations are constructed.           *)
(***************************************************************************)
TheExports ==
    {"vpc_id", "vpc_cidr", "public_subnet_ids", "private_subnet_ids", "aws_region",
     "cluster_name", "cluster_endpoint", "cluster_security_group_id", "kubeconfig",
     "oidc_provider_arn", "oidc_provider_url"}

C7_ExportsFixed ==
    /\ exports # <<>> => Len(decls) = 29
    /\ \A i, j \in 1..Len(exports) : exports[i].name = exports[j].name => i = j
    /\ \A i \in 1..Len(exports) : exports[i].name \in TheExports
    /\ phase # "running" =>
          /\ Len(exports) = 11
          /\ {exports[i].name : i \in 1..Len(exports)} = TheExports

\* the pass has ended under an overridden configuration
C7_Witness ==
    /\ phase = "submitted"
    /\ Overridden
    /\ Len(exports) = 11

(***************************************************************************)
(* C8 (as stated): every exported value is deferred: each of the 11 is     *)
(* unresolved in every state before the apply phase has completed.         *)
(***************************************************************************)
C8_AllDeferred ==
    phase # "done" =>
        \A i \in 1..Len(exports) : outputs[exports[i].name] = None

(***************************************************************************)
(* C8 (amended): the 9 exports read from the network or the cluster are    *)
(* deferred: each is unresolved in every state before the engine has       *)
(* applied the declaration it is read from, and resolved once the apply    *)
(* phase has completed; vpc_cidr and aws_region are plain configuration    *)
(* values, resolved from the moment they are exported.                     *)
(***************************************************************************)
FromNetwork == {"vpc_id", "public_subnet_ids", "private_subnet_ids"}

FromCluster ==
    {"cluster_name", "cluster_endpoint", "cluster_security_group_id", "kubeconfig",
     "oidc_provider_arn", "oidc_provider_url"}

C8_ResourceOutputsDeferred ==
    /\ \A n \in FromNetwork : outputs[n] # None => "vpc" \in applied
    /\ \A n \in FromCluster : outputs[n] # None => "cluster" \in applied
    /\ phase = "done" => \A n \in FromNetwork \cup FromCluster : outputs[n] # None
    /\ \A i \in 1..Len(exports) :
          exports[i].name \in {"vpc_cidr", "aws_region"} =>
              outputs[exports[i].name] # None

\* the network is applied and its outputs resolved while the cluster's are
\* still pending and the plain values have been known all along
C8_Witness ==
    /\ applied = {"vpc"}
    /\ outputs["vpc_id"] # None
    /\ outputs["cluster_endpoint"] = None
    /\ outputs["kubeconfig"] = None
    /\ outputs["vpc_cidr"] = <<"10.0.0.0/16">>
    /\ outputs["aws_region"] = <<"us-west-2">>

(***************************************************************************)
(* C9: in one run each declaration is constructed and registered exactly   *)
(* once, in source order; the registered list only ever grows by the next  *)
(* declaration: nothing is re-submitted, updated or withdrawn.             *)
(***************************************************************************)
InSourceOrder ==
    /\ Len(decls) <= Len(SourceOrder)
    /\ \A i \in 1..Len(decls) : decls[i].id = SourceOrder[i]
    /\ phase # "running" => Len(decls) = Len(SourceOrder)

GrowsByOne ==
    run' = run =>
        \/ decls' = decls
        \/ /\ Len(decls') = Len(decls) + 1
           /\ SubSeq(decls', 1, Len(decls)) = decls
           /\ phase = "running"

C9_OncePerRun == [](InSourceOrder) /\ [][GrowsByOne]_vars

\* a run has ended with all 29 declarations registered
C9_Witness ==
    /\ phase = "submitted"
    /\ Len(decls) = 29
    /\ Cardinality(Ids(decls)) = 29

(***************************************************************************)
(* C10: when the engine reports a failure for a declaration the run ends   *)
(* in an error state carrying exactly the engine's error; nothing happens  *)
(* afterwards: the declaration is not retried or counted as applied, and   *)
(* no declaration that depends on it is applied.                           *)
(***************************************************************************)
FailureEndsRun ==
    failed # None =>
        /\ phase = "error"
        /\ error = failed
        /\ failed[1].decl \notin applied
        /\ \A i \in 1..Len(decls) :
              failed[1].decl \in EngineAncestors(decls[i].id) =>
                  decls[i].id \notin applied
        /\ failed[1].decl = "istio_namespace" =>
              applied \cap {"istio_base", "istiod", "istio_ingress"} = {}

NothingAfterFailure == failed = None

C10_FailurePropagates == [](FailureEndsRun) /\ [][NothingAfterFailure]_vars

\* the istio-base chart install has failed after its namespace and an
\* unrelated namespace were applied
C10_Witness ==
    /\ failed = <<[decl |-> "istio_base", reason |-> "chart install failure"]>>
    /\ phase = "error"
    /\ "istio_namespace" \in applied
    /\ "logging_namespace" \in applied

(***************************************************************************)
(* Helpers for the apply-order properties.  The graph is complete when the *)
(* pass ends and no engine step changes decls, so its shape is examined in *)
(* the states before the first apply; the order is examined in all states. *)
(***************************************************************************)
BeforeApply == applied = {} /\ failed = None

Namespaced(d) == d.namespace # ""

ReadyIds == {decls[i].id : i \in {j \in 1..Len(decls) : Ready(decls[j])}}

(***************************************************************************)
(* C11: each namespaced resource (the 11 Helm releases, the Jaeger custom  *)
(* resource, the 5 network policies) has the namespace declaration it is   *)
(* placed in among its direct or transitive depends_on predecessors, and   *)
(* is applied only after that namespace.                                   *)
(***************************************************************************)
C11_NamespaceFirst ==
    /\ BeforeApply =>
          \A i \in 1..Len(decls) :
              Namespaced(decls[i]) =>
                  /\ DeclById(decls[i].namespace).kind = "namespace"
                  /\ decls[i].namespace \in ExplicitAncestors(decls[i].id)
    /\ BeforeApply /\ phase = "submitted" =>
          Cardinality({i \in 1..Len(decls) : Namespaced(decls[i])}) = 17
    /\ \A i \in 1..Len(decls) :
          (Namespaced(decls[i]) /\ decls[i].id \in applied) =>
              decls[i].namespace \in applied

\* the Jaeger instance, which reaches its namespace only through the
\* operator, is applied, and so is a policy of the same namespace
C11_Witness ==
    /\ "jaeger_instance" \in applied
    /\ "observability_deny_ingress" \in applied
    /\ "observability_namespace" \in applied
    /\ "observability_namespace" \notin DeclById("jaeger_instance").depends_on

(***************************************************************************)
(* C12: a custom resource is applied only after the Helm release that      *)
(* installs its definition: both ClusterIssuers after cert-manager, the    *)
(* Jaeger instance after the jaeger-operator and after the elasticsearch   *)
(* release it stores to; each of these is a depends_on edge.               *)
(***************************************************************************)
C12_DefinitionsFirst ==
    /\ Declared("letsencrypt_staging") =>
          "cert_manager" \in DeclById("letsencrypt_staging").depends_on
    /\ Declared("letsencrypt_prod") =>
          "cert_manager" \in DeclById("letsencrypt_prod").depends_on
    /\ Declared("jaeger_instance") =>
          {"jaeger_operator", "elasticsearch"}
              \subseteq DeclById("jaeger_instance").depends_on
    /\ "letsencrypt_staging" \in applied => "cert_manager" \in applied
    /\ "letsencrypt_prod" \in applied => "cert_manager" \in applied
    /\ "jaeger_instance" \in applied =>
          {"jaeger_operator", "elasticsearch"} \subseteq applied

\* one issuer and the Jaeger instance are applied, the other issuer is not yet
C12_Witness ==
    /\ "letsencrypt_prod" \in applied
    /\ "letsencrypt_staging" \notin applied
    /\ "jaeger_instance" \in applied
    /\ {"cert_manager", "jaeger_operator", "elasticsearch"} \subseteq applied

(***************************************************************************)
(* C13: the service mesh is a chain: istio-system namespace, istio-base,   *)
(* istiod, istio-ingress are applied strictly in that order, no two of     *)
(* them can be in flight at the same time, and the ingress gateway is      *)
(* never applied before the control plane.                                 *)
(***************************************************************************)
IstioChain == <<"istio_namespace", "istio_base", "istiod", "istio_ingress">>

C13_MeshInSequence ==
    /\ \A k \in 2..Len(IstioChain) :
          /\ Declared(IstioChain[k]) =>
                IstioChain[k - 1] \in DeclById(IstioChain[k]).depends_on
          /\ IstioChain[k] \in applied => IstioChain[k - 1] \in applied
    /\ Cardinality(ReadyIds \cap {IstioChain[k] : k \in 1..Len(IstioChain)}) <= 1
    /\ "istio_ingress" \in applied => "istiod" \in applied

\* istiod is the one mesh declaration that can be applied next, alongside
\* declarations of other stacks
C13_Witness ==
    /\ {"istio_namespace", "istio_base"} \subseteq applied
    /\ "istiod" \in ReadyIds
    /\ "istio_ingress" \notin ReadyIds
    /\ "logging_namespace" \in ReadyIds

(***************************************************************************)
(* C14: Kibana and Fluent Bit are each applied only after elasticsearch,   *)
(* and neither is a predecessor of the other along any edge, so once       *)
(* elasticsearch is applied both can be applied, in either order or at     *)
(* the same time.                                                          *)
(***************************************************************************)
C14_KibanaFluentIndependent ==
    /\ "kibana" \in applied => "elasticsearch" \in applied
    /\ "fluent_bit" \in applied => "elasticsearch" \in applied
    /\ BeforeApply =>
          /\ "kibana" \notin EngineAncestors("fluent_bit")
          /\ "fluent_bit" \notin EngineAncestors("kibana")
          /\ Declared("kibana") => "elasticsearch" \in DeclById("kibana").depends_on
          /\ Declared("fluent_bit") =>
                "elasticsearch" \in DeclById("fluent_bit").depends_on
    /\ (phase = "submitted" /\ "elasticsearch" \in applied) =>
          /\ "kibana" \notin applied => "kibana" \in ReadyIds
          /\ "fluent_bit" \notin applied => "fluent_bit" \in ReadyIds

\* elasticsearch is applied and both releases can be applied next
C14_Witness ==
    /\ "elasticsearch" \in applied
    /\ {"kibana", "fluent_bit"} \subseteq ReadyIds

(***************************************************************************)
(* C15: every Kubernetes declaration (7 namespaces, 11 Helm releases, 3    *)
(* custom resources, 5 network policies) is bound to the one provider      *)
(* built from the cluster's kubeconfig, never to an ambient default; with  *)
(* provider bindings and parameter references as edges, no Kubernetes      *)
(* resource is applied while the cluster or the network is not.            *)
(***************************************************************************)
OfKind(k) == {i \in 1..Len(decls) : decls[i].kind = k}

C15_OneProvider ==
    /\ \A i \in 1..Len(decls) :
          /\ decls[i].kind \in K8sKinds => decls[i].provider = "k8s_provider"
          /\ (decls[i].kind \in K8sKinds /\ decls[i].id \in applied) =>
                {"k8s_provider", "cluster", "vpc"} \subseteq applied
          /\ decls[i].kind = "provider" =>
                /\ decls[i].id = "k8s_provider"
                /\ decls[i].refs = {"cluster"}
    /\ BeforeApply /\ phase = "submitted" =>
          /\ Cardinality(OfKind("provider")) = 1
          /\ Cardinality(OfKind("namespace")) = 7
          /\ Cardinality(OfKind("helm-release")) = 11
          /\ Cardinality(OfKind("custom-resource")) = 3
          /\ Cardinality(OfKind("network-policy")) = 5

\* the last namespace of the program and a network policy are applied over
\* the provider, the cluster and the network
C15_Witness ==
    /\ "monitoring_namespace" \in applied
    /\ "logging_deny_ingress" \in applied
    /\ {"k8s_provider", "cluster", "vpc"} \subseteq applied

====
